---- MODULE Spec2Model ----
(***************************************************************************)
(* A model of the CTC base network (models/ctc/ctc_base.py: ctcBase) and   *)
(* of the checkpoint restore of the evaluation and plotting scripts.       *)
(*                                                                         *)
(* Conventions.                                                            *)
(*  - Python None is the empty tuple <<>>, a present value v is <<v>>.     *)
(*  - A Python string is a sequence of one-character strings, so that      *)
(*    lower(), split(), join() and the `in` test are computed.  A literal  *)
(*    of the source that is only ever copied is kept as one token.         *)
(*  - A real number is an exact fraction <<n, d>> with d > 0 in lowest     *)
(*    terms (floating-point rounding is not modelled).                     *)
(***************************************************************************)
EXTENDS Integers, Sequences, FiniteSets

VARIABLES
    clip_grad,        \* self.clip_grad: None or the clipping threshold
    weight_decay,     \* self.weight_decay
    lr,               \* self.lr: None until train() creates the placeholder
    clipped_grads,    \* self.clipped_grads: None until _gradient_clipping()
    summaries_train,  \* self.summaries_train
    summaries_dev,    \* self.summaries_dev
    graph,            \* the default tf.Graph: placeholders, variables,
                      \* the 'losses' collection, the ops built so far
    session,          \* what running ops has produced (tf.Session)
    config,           \* what the calling script passes: its configuration
                      \* and inputs, fixed for the life of the process
    outcome           \* the last call: its arguments, its result or error

vars == <<clip_grad, weight_decay, lr, clipped_grads, summaries_train,
          summaries_dev, graph, session, config, outcome>>

(***************************************************************************)
(* Python values                                                           *)
(***************************************************************************)
None == <<>>

Some(v) == <<v>>

Get(o) == o[1]

Range(s) == {s[i] : i \in DOMAIN s}

Max(a, b) == IF a >= b THEN a ELSE b

Min(a, b) == IF a <= b THEN a ELSE b

Abs(a) == IF a < 0 THEN -a ELSE a

RECURSIVE Gcd(_, _)
Gcd(a, b) == IF b = 0 THEN a ELSE Gcd(b, a % b)

\* The fraction n/d (d # 0) in lowest terms with a positive denominator.
Frac(n, d) ==
    LET g == Gcd(Abs(n), Abs(d))
        s == IF d < 0 THEN -1 ELSE 1
    IN  <<(s * n) \div g, (s * d) \div g>>

FromInt(n) == <<n, 1>>

\* +inf, as tf.edit_distance yields it.
Inf == <<1, 0>>

RAdd(x, y) ==
    IF x = Inf \/ y = Inf THEN Inf
    ELSE Frac(x[1] * y[2] + y[1] * x[2], x[2] * y[2])

RMul(x, y) == Frac(x[1] * y[1], x[2] * y[2])

RDivInt(x, k) == IF x = Inf THEN Inf ELSE Frac(x[1], x[2] * k)

RLeq(x, y) == x[1] * y[2] <= y[1] * x[2]

RECURSIVE RSum(_)
RSum(s) == IF s = <<>> THEN FromInt(0) ELSE RAdd(s[1], RSum(Tail(s)))

(***************************************************************************)
(* Python strings                                                          *)
(***************************************************************************)
UpperCase == <<"A", "B", "C", "D", "E", "F", "G", "H", "I", "J", "K", "L", "M",
               "N", "O", "P", "Q", "R", "S", "T", "U", "V", "W", "X", "Y", "Z">>

LowerCase == <<"a", "b", "c", "d", "e", "f", "g", "h", "i", "j", "k", "l", "m",
               "n", "o", "p", "q", "r", "s", "t", "u", "v", "w", "x", "y", "z">>

\* str.lower() of one character.
LowerChar(c) ==
    IF \E i \in DOMAIN UpperCase : UpperCase[i] = c
    THEN LowerCase[CHOOSE i \in DOMAIN UpperCase : UpperCase[i] = c]
    ELSE c

\* str.lower()
Lower(s) == [i \in DOMAIN s |-> LowerChar(s[i])]

\* sub in s, for two strings: sub occurs in s as a contiguous run.
Contains(s, sub) ==
    \E k \in 0..(Len(s) - Len(sub)) :
        \A i \in 1..Len(sub) : s[k + i] = sub[i]

\* sep.join(parts)
RECURSIVE Join(_, _)
Join(parts, sep) ==
    IF parts = <<>> THEN <<>>
    ELSE IF Len(parts) = 1 THEN parts[1]
    ELSE parts[1] \o sep \o Join(Tail(parts), sep)

(***************************************************************************)
(* OPTIMIZER_CLS_NAMES                                                     *)
(***************************************************************************)
adagrad == <<"a", "d", "a", "g", "r", "a", "d">>

adadelta == <<"a", "d", "a", "d", "e", "l", "t", "a">>

adam == <<"a", "d", "a", "m">>

momentum == <<"m", "o", "m", "e", "n", "t", "u", "m">>

rmsprop == <<"r", "m", "s", "p", "r", "o", "p">>

sgd == <<"s", "g", "d">>

\* The dict, as its items in the order the source lists them.
OPTIMIZER_CLS_NAMES ==
    << [key |-> adagrad,  cls |-> "AdagradOptimizer"],
       [key |-> adadelta, cls |-> "AdadeltaOptimizer"],
       [key |-> adam,     cls |-> "AdamOptimizer"],
       [key |-> momentum, cls |-> "MomentumOptimizer"],
       [key |-> rmsprop,  cls |-> "RMSPropOptimizer"],
       [key |-> sgd,      cls |-> "GradientDescentOptimizer"] >>

\* Iterating the dict yields its keys.
OptimizerKeys == [i \in DOMAIN OPTIMIZER_CLS_NAMES |-> OPTIMIZER_CLS_NAMES[i].key]

\* name in OPTIMIZER_CLS_NAMES
InOptimizerClsNames(name) ==
    \E i \in DOMAIN OPTIMIZER_CLS_NAMES : OPTIMIZER_CLS_NAMES[i].key = name

\* OPTIMIZER_CLS_NAMES[name]
OptimizerCls(name) ==
    OPTIMIZER_CLS_NAMES[CHOOSE i \in DOMAIN OPTIMIZER_CLS_NAMES :
                            OPTIMIZER_CLS_NAMES[i].key = name].cls

\* An exception instance: its class and its args tuple.
ValueError(args) == [type |-> "ValueError", args |-> args]

\* "Optimizer name should be one of [%s], you provided %s." %
\*     (", ".join(OPTIMIZER_CLS_NAMES), optimizer)
OptimizerMessageNoSet(name) ==
    <<"Optimizer name should be one of [">> \o <<"], you provided ">>
        \o name \o <<".">>

OptimizerMessage(name) ==
    <<"Optimizer name should be one of [">>
        \o Join(OptimizerKeys, <<",", " ">>)
        \o <<"], you provided ">> \o name \o <<".">>

(***************************************************************************)
(* Tensors.  A tensor of the graph is symbolic: a record naming the op     *)
(* that produces it.  Its value is computed when a session runs it, from   *)
(* the raw gradients of that run.  A tensor value is a tuple of fractions. *)
(***************************************************************************)
SumSq(t) == RSum([i \in DOMAIN t |-> RMul(t[i], t[i])])

\* The L2 norm of a tensor value whose squared norm is the square of an
\* integer (the gradient values drawn below are chosen so).
L2Norm(t) ==
    LET q == SumSq(t)
    IN  FromInt(CHOOSE r \in 0..q[1] : r * r * q[2] = q[1])

RMax(x, y) == IF RLeq(y, x) THEN x ELSE y

RMin(x, y) == IF RLeq(x, y) THEN x ELSE y

RInv(x) == Frac(x[2], x[1])

\* tf.clip_by_norm(t, clip_norm): t * clip_norm / max(l2norm(t), clip_norm)
ClipByNormValue(t, clip_norm) ==
    LET scale == RMul(FromInt(clip_norm),
                      RInv(RMax(L2Norm(t), FromInt(clip_norm))))
    IN  [i \in DOMAIN t |-> RMul(t[i], scale)]

\* tf.clip_by_value(t, lo, hi): elementwise min(max(t, lo), hi)
ClipByValueValue(t, lo, hi) ==
    [i \in DOMAIN t |-> RMin(RMax(t[i], FromInt(lo)), FromInt(hi))]

\* tf.gradients(loss, xs)[k]: the gradient of loss w.r.t. variable x
Gradient(loss, x) == [op |-> "gradients", ys |-> loss, xs |-> x]

\* tf.clip_by_norm(g, clip_norm=c), as a tensor of the graph
ClipByNorm(g, c) == [op |-> "clip_by_norm", t |-> g, clip_norm |-> c]

\* tf.clip_by_value(g, clip_value_min=lo, clip_value_max=hi)
ClipByValue(g, lo, hi) ==
    [op |-> "clip_by_value", t |-> g, clip_value_min |-> lo,
     clip_value_max |-> hi]

\* The value of tensor t in a run whose raw gradient w.r.t. variable x is
\* raw[x].
RECURSIVE Eval(_, _)
Eval(t, raw) ==
    CASE t.op = "gradients" -> raw[t.xs]
      [] t.op = "clip_by_norm" -> ClipByNormValue(Eval(t.t, raw), t.clip_norm)
      [] t.op = "clip_by_value" ->
            ClipByValueValue(Eval(t.t, raw), t.clip_value_min,
                             t.clip_value_max)

(***************************************************************************)
(* The graph                                                               *)
(***************************************************************************)
\* tf.trainable_variables(): the indices of the trainable variables, in
\* creation order.
TrainableVariables(g) ==
    SelectSeq([i \in DOMAIN g.variables |-> i],
              LAMBDA i : g.variables[i].trainable)

\* tf.placeholder(dtype, name=name): the graph with the placeholder added.
AddPlaceholder(g, name) ==
    [g EXCEPT !.placeholders = Append(@, name)]

\* tf.Variable(initial_value, name=name, trainable=trainable)
AddVariable(g, name, initial_value, trainable) ==
    [g EXCEPT !.variables =
        Append(@, [name |-> name, trainable |-> trainable,
                   value |-> initial_value])]

\* Optimizer.apply_gradients(grads_and_vars, global_step, name): the op
\* that applies each gradient to its variable and, given a global_step,
\* adds 1 to it.
ApplyGradients(optimizer, grads_and_vars, global_step, name) ==
    [optimizer |-> optimizer, grads_and_vars |-> grads_and_vars,
     global_step |-> global_step, name |-> name]

\* Optimizer.minimize(loss, global_step): compute_gradients over the
\* trainable variables, then apply_gradients.
MinimizeNoStep(g, optimizer, loss, global_step) ==
    ApplyGradients(optimizer,
        [k \in DOMAIN TrainableVariables(g) |->
            <<Gradient(loss, TrainableVariables(g)[k]),
              TrainableVariables(g)[k]>>],
        None, "Minimize")

Minimize(g, optimizer, loss, global_step) ==
    ApplyGradients(optimizer,
        [k \in DOMAIN TrainableVariables(g) |->
            <<Gradient(loss, TrainableVariables(g)[k]),
              TrainableVariables(g)[k]>>],
        Some(global_step), "Minimize")

(***************************************************************************)
(* ctcBase.train and ctcBase._gradient_clipping                            *)
(*                                                                         *)
(* A handler works on st = [lr, clipped_grads, graph], the part of the     *)
(* model and graph it can change, and yields                               *)
(* [st, raised, returned]: what it left behind, the exception if it        *)
(* raised, the value if it returned.                                       *)
(***************************************************************************)
Raise(st, err) == [st |-> st, raised |-> Some(err), returned |-> None]

Return(st, v) == [st |-> st, raised |-> None, returned |-> Some(v)]

\* Python truth of clip_grad_by_norm (None, True or False).
Truthy(b) == b # None /\ Get(b)

\* _gradient_clipping(self, loss, optimizer, clip_grad_by_norm, global_step)
gradient_clipping_unclipped(st, clip, loss, optimizer, clip_grad_by_norm, global_step) ==
    LET trainable_vars == TrainableVariables(st.graph)
        grads == [k \in DOMAIN trainable_vars |->
                    Gradient(loss, trainable_vars[k])]
        clipped == IF Truthy(clip_grad_by_norm)
                   THEN [k \in DOMAIN grads |-> ClipByNorm(grads[k], clip)]
                   ELSE [k \in DOMAIN grads |->
                            ClipByValue(grads[k], -clip, clip)]
        train_op == ApplyGradients(optimizer,
                        [k \in DOMAIN grads |->
                            <<grads[k], trainable_vars[k]>>],
                        Some(global_step), "train")
    IN  [st |-> [st EXCEPT !.clipped_grads = Some(clipped),
                           !.graph.train_ops = Append(@, train_op)],
         op |-> Len(st.graph.train_ops) + 1]

gradient_clipping(st, clip, loss, optimizer, clip_grad_by_norm, global_step) ==
    LET trainable_vars == TrainableVariables(st.graph)
        grads == [k \in DOMAIN trainable_vars |->
                    Gradient(loss, trainable_vars[k])]
        clipped == IF Truthy(clip_grad_by_norm)
                   THEN [k \in DOMAIN grads |-> ClipByNorm(grads[k], clip)]
                   ELSE [k \in DOMAIN grads |->
                            ClipByValue(grads[k], -clip, clip)]
        train_op == ApplyGradients(optimizer,
                        [k \in DOMAIN clipped |->
                            <<clipped[k], trainable_vars[k]>>],
                        Some(global_step), "train")
    IN  [st |-> [st EXCEPT !.clipped_grads = Some(clipped),
                           !.graph.train_ops = Append(@, train_op)],
         op |-> Len(st.graph.train_ops) + 1]

\* name='global_step'
global_step_name == <<"g", "l", "o", "b", "a", "l", "_", "s", "t", "e", "p">>

\* train, from the creation of the learning-rate placeholder on
\* (optimizer is the lower-cased name).
TrainBuild(st, clip, loss, optimizer, learning_rate_init, clip_grad_by_norm, is_scheduled) ==
    LET st1 == [st EXCEPT
                  !.lr = Some(Len(st.graph.placeholders) + 1),
                  !.graph = AddPlaceholder(@, "learning_rate")]
        rate == IF is_scheduled
                THEN [placeholder |-> Some(Get(st1.lr)), const |-> None]
                ELSE [placeholder |-> None, const |-> Some(learning_rate_init)]
        opt == IF optimizer = momentum
               THEN [cls |-> OptimizerCls(optimizer), learning_rate |-> rate,
                     momentum |-> Some(Frac(9, 10))]
               ELSE [cls |-> OptimizerCls(optimizer), learning_rate |-> rate,
                     momentum |-> None]
        st2 == [st1 EXCEPT
                  !.graph = AddVariable(@, global_step_name, 0, FALSE)]
        global_step == Len(st2.graph.variables)
    IN  IF clip # None
        THEN LET r == gradient_clipping(st2, Get(clip), loss, opt,
                                       clip_grad_by_norm, global_step)
             IN  Return(r.st, r.op)
        ELSE Return([st2 EXCEPT !.graph.train_ops =
                        Append(@, Minimize(st2.graph, opt, loss, global_step))],
                    Len(st2.graph.train_ops) + 1)

\* train(self, loss, optimizer, learning_rate_init, clip_grad_by_norm,
\*       is_scheduled); clip is self.clip_grad.
train_lr_first(st, clip, loss, optimizer, learning_rate_init, clip_grad_by_norm, is_scheduled) ==
    LET name == Lower(optimizer)
        st1 == [st EXCEPT
                  !.lr = Some(Len(st.graph.placeholders) + 1),
                  !.graph = AddPlaceholder(@, "learning_rate")]
    IN  IF ~InOptimizerClsNames(name)
        THEN Raise(st, ValueError(<<OptimizerMessage(name)>>))
        ELSE IF learning_rate_init < 0
        THEN Raise(st1, ValueError(<< <<"Invalid learning_rate %s.">>,
                                      learning_rate_init >>))
        ELSE TrainBuild(st, clip, loss, name, learning_rate_init,
                        clip_grad_by_norm, is_scheduled)

train(st, clip, loss, optimizer, learning_rate_init, clip_grad_by_norm, is_scheduled) ==
    LET name == Lower(optimizer)
    IN  IF ~InOptimizerClsNames(name)
        THEN Raise(st, ValueError(<<OptimizerMessage(name)>>))
        ELSE IF learning_rate_init < 0
        THEN Raise(st, ValueError(<< <<"Invalid learning_rate %s.">>,
                                     learning_rate_init >>))
        ELSE TrainBuild(st, clip, loss, name, learning_rate_init,
                        clip_grad_by_norm, is_scheduled)

(***************************************************************************)
(* Sparse tensors: the label sequences of a batch, as tf.SparseTensor      *)
(* holds them (row-major indices <<utterance, position>>, both from 0).    *)
(***************************************************************************)
RECURSIVE SparseIndices(_, _)
SparseIndices(seqs, b) ==
    IF b > Len(seqs) THEN <<>>
    ELSE [i \in 1..Len(seqs[b]) |-> <<b - 1, i - 1>>]
            \o SparseIndices(seqs, b + 1)

RECURSIVE Concat(_)
Concat(seqs) == IF seqs = <<>> THEN <<>> ELSE seqs[1] \o Concat(Tail(seqs))

RECURSIVE MaxLen(_)
MaxLen(seqs) ==
    IF seqs = <<>> THEN 0 ELSE Max(Len(seqs[1]), MaxLen(Tail(seqs)))

\* The SparseTensor of the label sequences seqs, one per utterance.
SparseTensor(seqs) ==
    [indices |-> SparseIndices(seqs, 1), values |-> Concat(seqs),
     dense_shape |-> <<Len(seqs), MaxLen(seqs)>>]

\* The values of sparse tensor sp whose first index is b, in order.
SparseRow(sp, b) ==
    LET at == SelectSeq([i \in DOMAIN sp.indices |-> i],
                        LAMBDA i : sp.indices[i][1] = b)
    IN  [k \in DOMAIN at |-> sp.values[at[k]]]

(***************************************************************************)
(* CTC decoding.  The logits of one utterance are a sequence of frames;    *)
(* a frame maps each class 0..num_classes-1 to its weight, proportional    *)
(* to the class's softmax probability in that frame.  The blank is the     *)
(* last class.                                                             *)
(***************************************************************************)
NumClasses(frame) == Cardinality(DOMAIN frame)

BlankIndex(frame) == NumClasses(frame) - 1

\* argmax over the classes, the first maximal class on a tie.
ArgMax(frame) ==
    CHOOSE c \in DOMAIN frame :
        /\ \A d \in DOMAIN frame : frame[d] <= frame[c]
        /\ \A d \in DOMAIN frame : frame[d] = frame[c] => c <= d

\* tf.nn.ctc_greedy_decoder (merge_repeated=True) on one utterance: over the
\* first n frames, emit the frame's argmax unless it is the blank or repeats
\* the argmax of the frame before.
RECURSIVE GreedyFrom(_, _, _, _)
GreedyFrom(frames, n, t, prev) ==
    IF t > n THEN <<>>
    ELSE LET c == ArgMax(frames[t])
         IN  (IF c # BlankIndex(frames[t]) /\ c # prev THEN <<c>> ELSE <<>>)
                \o GreedyFrom(frames, n, t + 1, c)

CtcGreedyDecoder(logits, seq_len) ==
    SparseTensor([b \in DOMAIN logits |->
                    GreedyFrom(logits[b], seq_len[b], 1, -1)])

Last(s) == s[Len(s)]

Front(s) == SubSeq(s, 1, Len(s) - 1)

\* A beam entry: a label prefix with the probability mass of the paths that
\* yield it and end in a blank (pb), respectively in its last label (pnb).
Total(e) == e.pb + e.pnb

\* The entries one frame can lead to from a beam: each prefix of the beam
\* kept, and each extended by one label, with the CTC path sums.
BeamCandidates(beam, frame) ==
    LET blank == BlankIndex(frame)
        labels == DOMAIN frame \ {blank}
        seqs == {e.seq : e \in beam}
                    \cup {Append(e.seq, c) : e \in beam, c \in labels}
        Stay(s) == {e \in beam : e.seq = s}
        Parent(s) == {e \in beam : s # <<>> /\ e.seq = Front(s)}
        Pb(s) == IF Stay(s) = {} THEN 0
                 ELSE Total(CHOOSE e \in Stay(s) : TRUE) * frame[blank]
        Repeat(s) == IF Stay(s) = {} \/ s = <<>> THEN 0
                     ELSE (CHOOSE e \in Stay(s) : TRUE).pnb * frame[Last(s)]
        Extend(s) ==
            IF Parent(s) = {} THEN 0
            ELSE LET e == CHOOSE e \in Parent(s) : TRUE
                 IN  (IF e.seq # <<>> /\ Last(e.seq) = Last(s)
                      THEN e.pb ELSE Total(e)) * frame[Last(s)]
    IN  {[seq |-> s, pb |-> Pb(s), pnb |-> Repeat(s) + Extend(s)] : s \in seqs}

\* The ways to keep the k best of the candidates (every way, when
\* candidates tie).
TopK(cands, k) ==
    {S \in SUBSET cands :
        /\ Cardinality(S) = Min(k, Cardinality(cands))
        /\ \A x \in S : \A y \in cands \ S : Total(x) >= Total(y)}

\* The beams that the first t frames can leave.
RECURSIVE Beams(_, _, _)
Beams(frames, t, beam_width) ==
    IF t = 0 THEN {{[seq |-> <<>>, pb |-> 1, pnb |-> 0]}}
    ELSE UNION {TopK(BeamCandidates(b, frames[t]), beam_width) :
                    b \in Beams(frames, t - 1, beam_width)}

\* merge_repeated=True: of consecutive equal labels of the output only the
\* first is emitted.
RECURSIVE MergeRepeated(_)
MergeRepeated(s) ==
    IF Len(s) <= 1 THEN s
    ELSE IF s[1] = s[2] THEN MergeRepeated(Tail(s))
    ELSE <<s[1]>> \o MergeRepeated(Tail(s))

\* tf.nn.ctc_beam_search_decoder (top_paths=1, merge_repeated=True) on one
\* utterance: the label sequences it can return for the first n frames.
BeamSearchAllFrames(frames, n, beam_width) ==
    {MergeRepeated(e.seq) :
        e \in UNION {UNION TopK(b, 1) :
                        b \in Beams(frames, Len(frames), beam_width)}}

BeamSearch(frames, n, beam_width) ==
    {MergeRepeated(e.seq) :
        e \in UNION {UNION TopK(b, 1) : b \in Beams(frames, n, beam_width)}}

\* The results the beam search decoder can return for a batch.
CtcBeamSearchDecoder(logits, seq_len, beam_width) ==
    {SparseTensor(seqs) :
        seqs \in {q \in [DOMAIN logits ->
                            UNION {BeamSearch(logits[b], seq_len[b], beam_width) :
                                      b \in DOMAIN logits}] :
                    \A b \in DOMAIN logits :
                        q[b] \in BeamSearch(logits[b], seq_len[b], beam_width)}}

\* ctcBase.decoder(self, logits, inputs_seq_len, decode_type, beam_width):
\* the decode op added to the graph g, or the error.
decoder_unchecked_width(g, logits, inputs_seq_len, decode_type, beam_width) ==
    IF decode_type \notin {"greedy", "beam_search"}
    THEN Raise(g, ValueError(<<"decode_type is \"greedy\" or \"beam_search\".">>))
    ELSE Return([g EXCEPT !.decode_ops =
                    Append(@, [decoder |-> decode_type, logits |-> logits,
                               sequence_length |-> inputs_seq_len,
                               beam_width |-> beam_width])],
                Len(g.decode_ops) + 1)

\* decoder with the beam-search op added before beam_width is checked.
decoder_checks_width_late(g, logits, inputs_seq_len, decode_type, beam_width) ==
    IF decode_type \notin {"greedy", "beam_search"}
    THEN Raise(g, ValueError(<<"decode_type is \"greedy\" or \"beam_search\".">>))
    ELSE LET g1 == [g EXCEPT !.decode_ops =
                       Append(@, [decoder |-> decode_type, logits |-> logits,
                                  sequence_length |-> inputs_seq_len,
                                  beam_width |-> IF decode_type = "greedy"
                                                 THEN None ELSE beam_width])]
         IN  IF decode_type = "beam_search" /\ beam_width = None
             THEN Raise(g1, ValueError(<<"Set beam_width.">>))
             ELSE Return(g1, Len(g1.decode_ops))

decoder(g, logits, inputs_seq_len, decode_type, beam_width) ==
    IF decode_type \notin {"greedy", "beam_search"}
    THEN Raise(g, ValueError(<<"decode_type is \"greedy\" or \"beam_search\".">>))
    ELSE IF decode_type = "greedy"
    THEN Return([g EXCEPT !.decode_ops =
                    Append(@, [decoder |-> "greedy", logits |-> logits,
                               sequence_length |-> inputs_seq_len,
                               beam_width |-> None])],
                Len(g.decode_ops) + 1)
    ELSE IF beam_width = None
    THEN Raise(g, ValueError(<<"Set beam_width.">>))
    ELSE Return([g EXCEPT !.decode_ops =
                    Append(@, [decoder |-> "beam_search", logits |-> logits,
                               sequence_length |-> inputs_seq_len,
                               beam_width |-> beam_width])],
                Len(g.decode_ops) + 1)

\* What running decode op `op` can fetch, for the fed logits and lengths:
\* tf.to_int32(decoded[0]) keeps the labels, which are class indices.
DecodeOpResults(op, logits, seq_len) ==
    IF op.decoder = "greedy" THEN {CtcGreedyDecoder(logits, seq_len)}
    ELSE CtcBeamSearchDecoder(logits, seq_len, Get(op.beam_width))

(***************************************************************************)
(* ctcBase.compute_ler                                                     *)
(***************************************************************************)
\* One row of the Levenshtein table of s against the prefix of t that ends
\* in c: prev is the row before, row the cells of this row so far.
RECURSIVE LevRow(_, _, _, _)
LevRow(prev, s, c, row) ==
    IF Len(row) = Len(prev) THEN row
    ELSE LET j == Len(row)
             sub == prev[j] + (IF s[j] = c THEN 0 ELSE 1)
         IN  LevRow(prev, s, c,
                    Append(row, Min(Min(prev[j + 1] + 1, row[j] + 1), sub)))

RECURSIVE LevRows(_, _, _, _)
LevRows(s, t, i, prev) ==
    IF i > Len(t) THEN prev
    ELSE LevRows(s, t, i + 1, LevRow(prev, s, t[i], <<i>>))

\* The Levenshtein distance of s and t, by rows of the table.
LevenshteinDistance(s, t) ==
    Last(LevRows(s, t, 1, [j \in 1..(Len(s) + 1) |-> j - 1]))

\* tf.edit_distance(hypothesis, truth, normalize=True): per utterance, the
\* distance over the length of the truth; 1 for a missing hypothesis, inf
\* for a hypothesis without a truth, 0 when both are missing.
EditDistanceByPosition(hypothesis, truth) ==
    LET present(sp) ==
            SelectSeq([b \in 1..sp.dense_shape[1] |-> b - 1],
                      LAMBDA b : SparseRow(sp, b) # <<>>)
        hs == present(hypothesis)
        ts == present(truth)
    IN  [b \in 1..Max(hypothesis.dense_shape[1], truth.dense_shape[1]) |->
            IF b <= Len(hs) /\ b <= Len(ts)
            THEN Frac(LevenshteinDistance(SparseRow(truth, ts[b]),
                                          SparseRow(hypothesis, hs[b])),
                      Len(SparseRow(truth, ts[b])))
            ELSE IF b <= Len(hs) THEN Inf
            ELSE IF b <= Len(ts) THEN FromInt(1)
            ELSE FromInt(0)]

EditDistance(hypothesis, truth) ==
    [b \in 1..Max(hypothesis.dense_shape[1], truth.dense_shape[1]) |->
        LET h == SparseRow(hypothesis, b - 1)
            t == SparseRow(truth, b - 1)
        IN  IF h # <<>> /\ t # <<>>
            THEN Frac(LevenshteinDistance(t, h), Len(t))
            ELSE IF h # <<>> THEN Inf
            ELSE IF t # <<>> THEN FromInt(1)
            ELSE FromInt(0)]

\* tf.reduce_mean over a non-empty vector.
ReduceMean(v) == RDivInt(RSum(v), Len(v))

\* The value of ler_op for the fed decode result and labels.
LerValueSwapped(decoded, labels) == ReduceMean(EditDistance(labels, decoded))

LerValue(decoded, labels) == ReduceMean(EditDistance(decoded, labels))

\* compute_ler(self, decode_op, labels) on
\* st = [summaries_train, summaries_dev, graph].
compute_ler(st, decode_op, labels) ==
    LET ler_op == [hypothesis |-> decode_op, truth |-> labels]
        n == Len(st.graph.ler_ops) + 1
    IN  Return([st EXCEPT
                  !.graph.ler_ops = Append(@, ler_op),
                  !.summaries_train = Append(@, <<"ler_train", n>>),
                  !.summaries_dev = Append(@, <<"ler_dev", n>>)],
               n)

(***************************************************************************)
(* ctcBase.compute_loss                                                    *)
(***************************************************************************)
\* The default graph before anything is built.
EmptyGraph ==
    [placeholders |-> <<>>, variables |-> <<>>, losses |-> <<>>,
     loss_ops |-> <<>>, train_ops |-> <<>>, decode_ops |-> <<>>,
     ler_ops |-> <<>>, builds |-> 0]

\* self._build(inputs, inputs_seq_len), which the subclasses define: the
\* first build creates the network's variables, a weight matrix and a bias,
\* and a later build (another tower of a multi-GPU graph) shares them.
\* Yields the graph and the logits of this build.
_build(g, inputs, inputs_seq_len) ==
    LET g1 == IF g.builds = 0
              THEN AddVariable(AddVariable(g, <<"W">>, 0, TRUE),
                               <<"B", "i", "a", "s">>, 0, TRUE)
              ELSE g
    IN  [graph |-> [g1 EXCEPT !.builds = @ + 1],
         logits |-> [op |-> "logits", build |-> g.builds + 1]]

\* The graph after one build.
BuiltGraph == _build(EmptyGraph, "inputs", "inputs_seq_len").graph

\* 'bias' not in var.name.lower()
NotBias(name) == ~Contains(Lower(name), <<"b", "i", "a", "s">>)

\* The weight-decay term: weight_sum * self.weight_decay, weight_sum being
\* the sum of tf.nn.l2_loss(var) over the trainable variables whose name
\* has no 'bias'.
WeightDecayLoss(g, decay) ==
    [op |-> "weight_decay_loss",
     vars |-> SelectSeq(TrainableVariables(g),
                        LAMBDA v : NotBias(g.variables[v].name)),
     weight_decay |-> decay]

\* tf.reduce_mean(tf.nn.ctc_loss(labels, logits, inputs_seq_len))
CtcLossMean(labels, logits, inputs_seq_len) ==
    [op |-> "ctc_loss_mean", labels |-> labels, logits |-> logits,
     sequence_length |-> inputs_seq_len]

\* tf.add_n(tensors)
AddN(tensors) == [op |-> "add_n", inputs |-> tensors]

\* compute_loss(self, inputs, labels, inputs_seq_len, num_gpu) on
\* st = [summaries_train, summaries_dev, graph]; decay is
\* self.weight_decay.  (The scope argument is not used by the code.)
compute_loss(st, decay, inputs, labels, inputs_seq_len, num_gpu) ==
    LET b == _build(st.graph, inputs, inputs_seq_len)
        g1 == [b.graph EXCEPT !.losses =
                  Append(@, WeightDecayLoss(b.graph, decay))]
        g2 == [g1 EXCEPT !.losses =
                  Append(@, CtcLossMean(labels, b.logits, inputs_seq_len))]
        loss == AddN(g2.losses)
        g3 == [g2 EXCEPT !.loss_ops = Append(@, loss)]
        n == Len(g3.loss_ops)
    IN  Return([st EXCEPT
                  !.graph = g3,
                  !.summaries_train =
                      IF num_gpu = 1 THEN Append(@, <<"loss_train", n>>) ELSE @,
                  !.summaries_dev =
                      IF num_gpu = 1 THEN Append(@, <<"loss_dev", n>>) ELSE @],
               <<n, b.logits>>)

\* The value of a tensor of the 'losses' collection or of a total loss, in
\* a run where tf.nn.l2_loss of variable v is l2[v] and the mean CTC loss
\* of the logits of build k is ctc[k].
RECURSIVE LossValue(_, _, _)
LossValue(t, l2, ctc) ==
    CASE t.op = "weight_decay_loss" ->
            LET RECURSIVE WeightSum(_)
                WeightSum(vs) == IF vs = <<>> THEN 0
                                 ELSE l2[vs[1]] + WeightSum(Tail(vs))
            IN  WeightSum(t.vars) * t.weight_decay
      [] t.op = "ctc_loss_mean" -> ctc[t.logits.build]
      [] t.op = "add_n" ->
            LET RECURSIVE Sum(_)
                Sum(ts) == IF ts = <<>> THEN 0
                           ELSE LossValue(ts[1], l2, ctc) + Sum(Tail(ts))
            IN  Sum(t.inputs)

(***************************************************************************)
(* The state after construction, and the calls of the training scripts     *)
(***************************************************************************)
MaxOps == 1

MaxGlobalStep == 2

\* ctcBase.__init__: the fields of a new model.
InitModel ==
    /\ lr = None
    /\ clipped_grads = None
    /\ summaries_train = <<>>
    /\ summaries_dev = <<>>
    /\ session = [applied |-> None, decoded |-> None, ler |-> None,
                  loss |-> None, restored |-> None, passes |-> <<>>]
    /\ outcome = [call |-> "__init__", args |-> <<>>, raised |-> None,
                  returned |-> None]

\* The optimizer names the scripts may pass: the six keys, some of their
\* letter-case variants, and names outside the set.
OptimizerArgs ==
    { adagrad, adadelta, adam, momentum, rmsprop, sgd,
      <<"S", "G", "D">>, <<"S", "g", "d">>, <<"A", "d", "a", "m">>,
      <<"R", "M", "S", "P", "r", "o", "p">>,
      <<"M", "O", "M", "E", "N", "T", "U", "M">>,
      <<"a", "d", "a", "D", "E", "L", "T", "A">>,
      <<>>, <<"a", "d", "a">>, <<"s", "g", "d", "m">>,
      <<"L", "B", "F", "G", "S">> }

\* Initial learning rates, in units of the smallest rate used.
LearningRates == {-1, 0, 1}

\* clip_grad_by_norm: None (the default), True or False.
ClipByNormArgs == {None, Some(TRUE), Some(FALSE)}

\* self.clip_grad: None or a threshold > 0.
ClipGrads == {None, Some(1), Some(5)}

\* Raw gradient values of one run: two-element tensors with an integer norm.
GradValues ==
    { <<FromInt(0), FromInt(0)>>, <<FromInt(3), FromInt(4)>>,
      <<FromInt(6), FromInt(-8)>>, <<FromInt(0), FromInt(-1)>> }

InitTrain ==
    /\ InitModel
    /\ clip_grad \in ClipGrads
    /\ weight_decay = 0
    /\ graph = BuiltGraph
    /\ config \in [optimizer : OptimizerArgs,
                   learning_rate_init : LearningRates,
                   clip_grad_by_norm : ClipByNormArgs,
                   is_scheduled : BOOLEAN]

\* network.train(loss, optimizer, learning_rate_init, clip_grad_by_norm,
\*               is_scheduled)
CallTrain ==
    LET r == train([lr |-> lr, clipped_grads |-> clipped_grads,
                    graph |-> graph], clip_grad, "total_loss",
                   config.optimizer, config.learning_rate_init,
                   config.clip_grad_by_norm, config.is_scheduled)
    IN  /\ Len(r.st.graph.train_ops) <= MaxOps
        /\ lr' = r.st.lr
        /\ clipped_grads' = r.st.clipped_grads
        /\ graph' = r.st.graph
        /\ outcome' = [call |-> "train", args |-> <<>>,
                       raised |-> r.raised, returned |-> r.returned]
        /\ UNCHANGED <<clip_grad, weight_decay, summaries_train,
                       summaries_dev, session, config>>

\* session.run(train_op): the gradients of the op are evaluated and applied,
\* and the op's global step, when it has one, is incremented with them.
RunTrainOp ==
    \E k \in DOMAIN graph.train_ops :
    \E raw \in [Range(TrainableVariables(graph)) -> GradValues] :
        LET op == graph.train_ops[k]
            applied == [j \in DOMAIN op.grads_and_vars |->
                            Eval(op.grads_and_vars[j][1], raw)]
        IN  /\ op.global_step # None =>
                  graph.variables[Get(op.global_step)].value < MaxGlobalStep
            /\ graph' = IF op.global_step = None THEN graph
                        ELSE [graph EXCEPT
                                !.variables[Get(op.global_step)].value = @ + 1]
            /\ session' = [session EXCEPT !.applied = Some(applied)]
            /\ outcome' = [call |-> "run", args |-> <<k>>,
                           raised |-> None, returned |-> None]
            /\ UNCHANGED <<clip_grad, weight_decay, lr, clipped_grads,
                           summaries_train, summaries_dev, config>>

NextTrain == CallTrain \/ RunTrainOp

SpecTrain == InitTrain /\ [][NextTrain]_vars

(***************************************************************************)
(* Properties of train and of the training step                            *)
(***************************************************************************)
\* The closed set of optimizer names.
ValidOptimizerNames == {adagrad, adadelta, adam, momentum, rmsprop, sgd}

\* a and b are the same word up to letter case.
SameLetters(a, b) ==
    /\ Len(a) = Len(b)
    /\ \A i \in DOMAIN a :
          \/ a[i] = b[i]
          \/ \E j \in DOMAIN UpperCase :
                {a[i], b[i]} = {UpperCase[j], LowerCase[j]}

ValidOptimizerArg ==
    \E n \in ValidOptimizerNames : SameLetters(n, config.optimizer)

\* C1: for an optimizer name of the closed set in any letter case and a
\* learning rate >= 0, train returns a training op, and every run of a
\* training op adds exactly 1 to that op's global step counter (a
\* non-trainable variable named global_step) and changes no other variable,
\* on the clipping path as on the minimize path.
C1_TrainStepIncrementsGlobalStep ==
    [][ /\ (outcome'.call = "train" /\ ValidOptimizerArg
                /\ config.learning_rate_init >= 0)
            => /\ outcome'.raised = None
               /\ outcome'.returned # None
               /\ Get(outcome'.returned) = Len(graph'.train_ops)
               /\ Len(graph'.train_ops) = Len(graph.train_ops) + 1
        /\ outcome'.call = "run"
            => LET op == graph.train_ops[outcome'.args[1]]
               IN  /\ op.global_step # None
                   /\ LET gs == Get(op.global_step)
                      IN  /\ graph.variables[gs].name = global_step_name
                          /\ ~graph.variables[gs].trainable
                          /\ graph'.variables[gs].value =
                                graph.variables[gs].value + 1
                          /\ \A v \in DOMAIN graph.variables :
                                v # gs => graph'.variables[v] = graph.variables[v]
      ]_vars

\* C1's case: a training op built by the minimize path for a mixed-case
\* name has been run twice.
C1_Witness ==
    /\ outcome.call = "run"
    /\ clip_grad = None
    /\ config.optimizer = <<"R", "M", "S", "P", "r", "o", "p">>
    /\ \E v \in DOMAIN graph.variables :
          graph.variables[v].name = global_step_name /\ graph.variables[v].value = 2

\* C2: for a name whose lower-cased form is outside the closed set, train
\* raises a ValueError whose message names every member of the set,
\* whatever the other arguments are.
C2_UnknownOptimizerRejected ==
    (outcome.call = "train" /\ ~ValidOptimizerArg)
        => /\ outcome.returned = None
           /\ outcome.raised # None
           /\ Get(outcome.raised).type = "ValueError"
           /\ \A n \in ValidOptimizerNames :
                 Contains(Get(outcome.raised).args[1], n)

\* C2's case: train was called with the name "sgdm" and a negative rate.
C2_Witness ==
    /\ outcome.call = "train"
    /\ config.optimizer = <<"s", "g", "d", "m">>
    /\ config.learning_rate_init < 0
    /\ outcome.raised # None

\* C3: a train call with a negative learning rate raises and leaves the
\* graph, self.lr and self.clipped_grads as they were: no placeholder, no
\* global step variable, no training op.
C3_NegativeRateNoMutation ==
    [][ (outcome'.call = "train" /\ config.learning_rate_init < 0)
            => /\ outcome'.raised # None
               /\ outcome'.returned = None
               /\ graph' = graph
               /\ lr' = lr
               /\ clipped_grads' = clipped_grads
               /\ lr' = None
               /\ graph'.placeholders = <<>>
               /\ graph'.train_ops = <<>>
      ]_vars

\* C3's case: train raised on the learning rate (the name was valid).
C3_Witness ==
    /\ outcome.call = "train"
    /\ config.learning_rate_init < 0
    /\ ValidOptimizerArg
    /\ outcome.raised # None
    /\ Get(outcome.raised).args[2] = config.learning_rate_init

\* C9: with clip_grad configured, the gradients a training op applies are
\* the clipped ones cached in self.clipped_grads, clipped by norm when
\* clip_grad_by_norm is true and by value otherwise; every applied value
\* then has an L2 norm <= clip_grad, respectively elements within
\* [-clip_grad, +clip_grad].
C9_AppliedGradientsClipped ==
    clip_grad # None =>
        LET c == Get(clip_grad)
            by_norm == config.clip_grad_by_norm = Some(TRUE)
        IN  /\ \A k \in DOMAIN graph.train_ops :
                  LET gv == graph.train_ops[k].grads_and_vars
                  IN  /\ clipped_grads = Some([j \in DOMAIN gv |-> gv[j][1]])
                      /\ \A j \in DOMAIN gv :
                            gv[j][1].op = IF by_norm THEN "clip_by_norm"
                                          ELSE "clip_by_value"
            /\ session.applied # None =>
                  \A j \in DOMAIN Get(session.applied) :
                      LET t == Get(session.applied)[j]
                      IN  IF by_norm
                          THEN RLeq(SumSq(t), FromInt(c * c))
                          ELSE \A i \in DOMAIN t :
                                  /\ RLeq(FromInt(-c), t[i])
                                  /\ RLeq(t[i], FromInt(c))

\* C9's case: a run whose raw gradients <<3, 4>> and <<0, -1>> were clipped
\* by norm to the threshold 1: the first is scaled down, the second kept.
C9_Witness ==
    /\ clip_grad = Some(1)
    /\ config.clip_grad_by_norm = Some(TRUE)
    /\ session.applied # None
    /\ Get(session.applied)[1] = <<Frac(3, 5), Frac(4, 5)>>
    /\ Get(session.applied)[2] = <<FromInt(0), FromInt(-1)>>

(***************************************************************************)
(* Decoding: the calls of the evaluation scripts                           *)
(***************************************************************************)
MaxTime == 3

\* The frame whose class weights are w[1] (class 0), w[2] (class 1), ...
FrameOf(w) == [c \in 0..(Len(w) - 1) |-> w[c + 1]]

\* Frames over two labels and the blank: label 0 ahead of the blank, label
\* 1 ahead, the blank ahead, and the two labels tied.
FramePool ==
    { FrameOf(<<5, 1, 4>>), FrameOf(<<3, 4, 3>>), FrameOf(<<1, 1, 8>>),
      FrameOf(<<2, 2, 1>>) }

DecodeTypes == {"greedy", "beam_search", "beam", "Greedy"}

BeamWidths == {None, Some(1), Some(2)}

InitDecode ==
    /\ InitModel
    /\ clip_grad = None
    /\ weight_decay = 0
    /\ graph = BuiltGraph
    /\ config \in [decode_type : DecodeTypes,
                   beam_width : BeamWidths,
                   logits : [1..1 -> [1..MaxTime -> FramePool]],
                   seq_len : [1..1 -> 0..MaxTime]]

\* network.decoder(logits, inputs_seq_len, decode_type, beam_width)
CallDecoder ==
    LET r == decoder(graph, "logits", "inputs_seq_len", config.decode_type,
                     config.beam_width)
    IN  /\ Len(r.st.decode_ops) <= MaxOps
        /\ graph' = r.st
        /\ outcome' = [call |-> "decoder", args |-> <<>>,
                       raised |-> r.raised, returned |-> r.returned]
        /\ UNCHANGED <<clip_grad, weight_decay, lr, clipped_grads,
                       summaries_train, summaries_dev, session, config>>

\* session.run(decode_op, feed_dict={logits, inputs_seq_len})
RunDecodeOp ==
    \E k \in DOMAIN graph.decode_ops :
        LET op == graph.decode_ops[k]
        IN  /\ op.decoder = "beam_search" => op.beam_width # None
            /\ \E result \in DecodeOpResults(op, config.logits, config.seq_len) :
                  session' = [session EXCEPT !.decoded = Some(result)]
            /\ outcome' = [call |-> "run_decode", args |-> <<k>>,
                           raised |-> None, returned |-> None]
            /\ UNCHANGED <<clip_grad, weight_decay, lr, clipped_grads,
                           summaries_train, summaries_dev, graph, config>>

NextDecode == CallDecoder \/ RunDecodeOp

SpecDecode == InitDecode /\ [][NextDecode]_vars

(***************************************************************************)
(* Properties of decoder                                                   *)
(***************************************************************************)
\* C4: decoder raises a ValueError and adds no op for a decode_type other
\* than 'greedy' and 'beam_search', and for 'beam_search' without a
\* beam_width; for 'greedy' it returns a decode op, beam_width or not.
C4_DecoderRejectsBadConfiguration ==
    outcome.call = "decoder" =>
        LET failed == /\ outcome.raised # None
                      /\ Get(outcome.raised).type = "ValueError"
                      /\ outcome.returned = None
                      /\ graph.decode_ops = <<>>
            built == /\ outcome.raised = None
                     /\ outcome.returned = Some(Len(graph.decode_ops))
                     /\ graph.decode_ops # <<>>
                     /\ Last(graph.decode_ops).decoder = config.decode_type
        IN  /\ config.decode_type \notin {"greedy", "beam_search"} => failed
            /\ (config.decode_type = "beam_search" /\ config.beam_width = None)
                  => failed
            /\ config.decode_type = "greedy" => built
            /\ (config.decode_type = "beam_search" /\ config.beam_width # None)
                  => built

\* C4's case: decoder was called for beam search without a beam width.
C4_Witness ==
    /\ outcome.call = "decoder"
    /\ config.decode_type = "beam_search"
    /\ config.beam_width = None
    /\ outcome.raised = Some(ValueError(<<"Set beam_width.">>))

\* Greedy CTC decoding as the claim words it: the argmax of each frame,
\* repeats collapsed, blanks removed.
RECURSIVE CollapseRepeats(_)
CollapseRepeats(s) ==
    IF Len(s) <= 1 THEN s
    ELSE IF s[Len(s)] = s[Len(s) - 1] THEN CollapseRepeats(Front(s))
    ELSE Append(CollapseRepeats(Front(s)), s[Len(s)])

GreedyLabels(frames, n) ==
    LET path == [t \in 1..n |-> ArgMax(frames[t])]
    IN  SelectSeq(CollapseRepeats(path),
                  LAMBDA c : n > 0 /\ c # BlankIndex(frames[1]))

\* A decode op with beam width 1 has just been run.
RanBeamWidthOne ==
    /\ outcome.call = "run_decode"
    /\ session.decoded # None
    /\ graph.decode_ops[outcome.args[1]].decoder = "beam_search"
    /\ graph.decode_ops[outcome.args[1]].beam_width = Some(1)

\* No tie can arise in decoding the batch: the decoder has one result.
NoTie ==
    /\ Cardinality(CtcBeamSearchDecoder(config.logits, config.seq_len, 1)) = 1
    /\ \A b \in DOMAIN config.logits : \A t \in 1..config.seq_len[b] :
          \A c \in DOMAIN config.logits[b][t] :
              c # ArgMax(config.logits[b][t])
                  => config.logits[b][t][c] <
                        config.logits[b][t][ArgMax(config.logits[b][t])]

\* C5 as claimed: beam search with beam width 1 returns, for every
\* utterance, the greedy decode of the same logits (stated for the inputs
\* on which no tie arises, where the result does not depend on how the
\* decoders break ties).
C5_BeamWidthOneIsGreedy ==
    (RanBeamWidthOne /\ NoTie) =>
        \A b \in DOMAIN config.logits :
            SparseRow(Get(session.decoded), b - 1)
                = GreedyLabels(config.logits[b], config.seq_len[b])

\* C5 as amended: the greedy decoder returns the argmax path with repeats
\* collapsed and blanks removed; beam search with beam width 1 returns the
\* same for every utterance of at most one frame whose highest-scoring
\* class is unique.
C5_BeamWidthOneIsGreedyOnOneFrame ==
    /\ (outcome.call = "run_decode" /\ session.decoded # None
            /\ graph.decode_ops[outcome.args[1]].decoder = "greedy")
          => \A b \in DOMAIN config.logits :
                SparseRow(Get(session.decoded), b - 1)
                    = GreedyLabels(config.logits[b], config.seq_len[b])
    /\ RanBeamWidthOne
          => \A b \in DOMAIN config.logits :
                (/\ config.seq_len[b] <= 1
                 /\ config.seq_len[b] = 1 =>
                       \A c \in DOMAIN config.logits[b][1] :
                           c # ArgMax(config.logits[b][1])
                               => config.logits[b][1][c] <
                                     config.logits[b][1][ArgMax(config.logits[b][1])])
                    => SparseRow(Get(session.decoded), b - 1)
                          = GreedyLabels(config.logits[b], config.seq_len[b])

\* C5's case: beam search with width 1 has decoded a one-frame utterance
\* to its label 1.
C5_Witness ==
    /\ RanBeamWidthOne
    /\ config.seq_len[1] = 1
    /\ config.logits[1][1] = FrameOf(<<3, 4, 3>>)
    /\ SparseRow(Get(session.decoded), 0) = <<1>>

(***************************************************************************)
(* The label error rate: the calls of the training and evaluation scripts  *)
(***************************************************************************)
MaxBatch == 3

\* What one utterance can bring: <<decoded labels, reference labels>>.
Utterances ==
    { << <<1, 2, 3>>, <<1, 2, 3>> >>, << <<4, 5>>, <<4, 5>> >>,
      << <<6>>, <<6>> >>, << <<4, 9>>, <<4, 5>> >>,
      << <<1, 3>>, <<1, 2, 3>> >>, << <<5, 4, 6>>, <<4, 5>> >>,
      << <<>>, <<6>> >>, << <<6>>, <<>> >>, << <<>>, <<>> >> }

InitLer ==
    /\ InitModel
    /\ clip_grad = None
    /\ weight_decay = 0
    /\ graph = BuiltGraph
    /\ \E n \in 1..MaxBatch : \E batch \in [1..n -> Utterances] :
          config = [decoded |-> [b \in 1..n |-> batch[b][1]],
                    labels |-> [b \in 1..n |-> batch[b][2]]]

\* network.compute_ler(decode_op, labels)
CallComputeLer ==
    LET r == compute_ler([summaries_train |-> summaries_train,
                          summaries_dev |-> summaries_dev, graph |-> graph],
                         "decode_op", "labels")
    IN  /\ Len(r.st.graph.ler_ops) <= MaxOps
        /\ summaries_train' = r.st.summaries_train
        /\ summaries_dev' = r.st.summaries_dev
        /\ graph' = r.st.graph
        /\ outcome' = [call |-> "compute_ler", args |-> <<>>,
                       raised |-> r.raised, returned |-> r.returned]
        /\ UNCHANGED <<clip_grad, weight_decay, lr, clipped_grads, session,
                       config>>

\* session.run(ler_op, feed_dict={decode_op, labels})
RunLerOp ==
    \E k \in DOMAIN graph.ler_ops :
        /\ session' = [session EXCEPT
                         !.ler = Some(LerValue(SparseTensor(config.decoded),
                                               SparseTensor(config.labels)))]
        /\ outcome' = [call |-> "run_ler", args |-> <<k>>,
                       raised |-> None, returned |-> None]
        /\ UNCHANGED <<clip_grad, weight_decay, lr, clipped_grads,
                       summaries_train, summaries_dev, graph, config>>

NextLer == CallComputeLer \/ RunLerOp

SpecLer == InitLer /\ [][NextLer]_vars

(***************************************************************************)
(* Properties of compute_ler                                               *)
(***************************************************************************)
\* The Levenshtein distance by its defining recursion.
RECURSIVE Lev(_, _)
Lev(a, b) ==
    IF a = <<>> THEN Len(b)
    ELSE IF b = <<>> THEN Len(a)
    ELSE Min(Min(Lev(Tail(a), b) + 1, Lev(a, Tail(b)) + 1),
             Lev(Tail(a), Tail(b)) + (IF a[1] = b[1] THEN 0 ELSE 1))

\* C6: the LER of a batch (whose references are not empty) is the mean over
\* its utterances of the Levenshtein distance between decoded and reference
\* labels over the reference length; for the references [1,2,3], [4,5], [6]
\* decoded as [1,2,3], [4,9], [6] it is 1/6.
C6_LerIsMeanNormalizedEditDistance ==
    session.ler # None =>
        /\ (\A b \in DOMAIN config.labels : config.labels[b] # <<>>)
              => Get(session.ler) =
                    RDivInt(RSum([b \in DOMAIN config.labels |->
                                    Frac(Lev(config.decoded[b], config.labels[b]),
                                         Len(config.labels[b]))]),
                            Len(config.labels))
        /\ (/\ config.labels = << <<1, 2, 3>>, <<4, 5>>, <<6>> >>
            /\ config.decoded = << <<1, 2, 3>>, <<4, 9>>, <<6>> >>)
              => Get(session.ler) = <<1, 6>>

\* C6's case: the LER op has been run on the batch of the example.
C6_Witness ==
    /\ outcome.call = "run_ler"
    /\ config.labels = << <<1, 2, 3>>, <<4, 5>>, <<6>> >>
    /\ config.decoded = << <<1, 2, 3>>, <<4, 9>>, <<6>> >>
    /\ session.ler = Some(<<1, 6>>)

\* The permutations of 1..n.
BatchOrders(n) ==
    {p \in [1..n -> 1..n] : \A i, j \in 1..n : p[i] = p[j] => i = j}

\* C7: the LER is 0 when every utterance is decoded to its reference, and
\* it is the LER of every reordering of the batch.
C7_LerZeroAndOrderInvariant ==
    session.ler # None =>
        /\ config.decoded = config.labels => Get(session.ler) = FromInt(0)
        /\ \A p \in BatchOrders(Len(config.labels)) :
              LerValue(SparseTensor([b \in DOMAIN p |-> config.decoded[p[b]]]),
                       SparseTensor([b \in DOMAIN p |-> config.labels[p[b]]]))
                  = Get(session.ler)

\* C7's case: the LER op has been run on a batch of three different
\* utterances, one of them decoded to nothing; and on a batch decoded
\* exactly.
C7_Witness ==
    /\ outcome.call = "run_ler"
    /\ config.labels = << <<6>>, <<4, 5>>, <<1, 2, 3>> >>
    /\ config.decoded = << <<>>, <<4, 5>>, <<1, 3>> >>
    /\ session.ler = Some(Frac(4, 9))

(***************************************************************************)
(* The loss: the calls of the training scripts                             *)
(***************************************************************************)
MaxBuilds == 2

WeightDecays == {0, 1, 2}

NumGpus == {1, 2}

\* Values of tf.nn.l2_loss of a variable, and of a mean CTC loss.
L2Values == {1, 3}

CtcValues == {2, 5}

InitLoss ==
    /\ InitModel
    /\ clip_grad = None
    /\ weight_decay \in WeightDecays
    /\ graph = EmptyGraph
    /\ config \in [num_gpu : NumGpus]

\* network.compute_loss(inputs, labels, inputs_seq_len, num_gpu)
CallComputeLoss ==
    LET r == compute_loss([summaries_train |-> summaries_train,
                           summaries_dev |-> summaries_dev, graph |-> graph],
                          weight_decay, "inputs", "labels", "inputs_seq_len",
                          config.num_gpu)
    IN  /\ r.st.graph.builds <= MaxBuilds
        /\ summaries_train' = r.st.summaries_train
        /\ summaries_dev' = r.st.summaries_dev
        /\ graph' = r.st.graph
        /\ outcome' = [call |-> "compute_loss", args |-> <<>>,
                       raised |-> r.raised, returned |-> r.returned]
        /\ UNCHANGED <<clip_grad, weight_decay, lr, clipped_grads, session,
                       config>>

\* session.run(loss) for the loss the k-th compute_loss returned.
RunLossOp ==
    \E k \in DOMAIN graph.loss_ops :
    \E l2 \in [DOMAIN graph.variables -> L2Values] :
    \E ctc \in [1..graph.builds -> CtcValues] :
        /\ session' = [session EXCEPT
                         !.loss = Some([op |-> k, l2 |-> l2,
                                        ctc_loss_mean |-> ctc,
                                        value |-> LossValue(graph.loss_ops[k],
                                                            l2, ctc)])]
        /\ outcome' = [call |-> "run_loss", args |-> <<k>>,
                       raised |-> None, returned |-> None]
        /\ UNCHANGED <<clip_grad, weight_decay, lr, clipped_grads,
                       summaries_train, summaries_dev, graph, config>>

NextLoss == CallComputeLoss \/ RunLossOp

SpecLoss == InitLoss /\ [][NextLoss]_vars

(***************************************************************************)
(* Properties of compute_loss                                              *)
(***************************************************************************)
\* The name has the letters b, i, a, s in a row, in either case.
NamesBias(name) ==
    \E k \in 0..(Len(name) - 4) :
        SameLetters(SubSeq(name, k + 1, k + 4), <<"b", "i", "a", "s">>)

\* C8: the loss every compute_loss call returns evaluates to weight_decay
\* times the summed L2 losses of the trainable non-bias variables, plus the
\* mean CTC loss of that call, and nothing else: for the first call and for
\* every later one on the same graph.
C8_LossIsWeightDecayPlusCtcMean ==
    session.loss # None =>
        LET r == Get(session.loss)
            weights == {v \in DOMAIN graph.variables :
                            /\ graph.variables[v].trainable
                            /\ ~NamesBias(graph.variables[v].name)}
            RECURSIVE L2Sum(_)
            L2Sum(vs) == IF vs = {} THEN 0
                         ELSE LET v == CHOOSE v \in vs : TRUE
                              IN  r.l2[v] + L2Sum(vs \ {v})
        IN  r.value = weight_decay * L2Sum(weights) + r.ctc_loss_mean[r.op]

\* C13: the graph is constructed once: a compute_loss call on a model whose
\* graph is already built raises, or else builds nothing, adds no term to
\* the 'losses' collection and appends no loss summary.
C13_SecondComputeLossFailsOrNoOp ==
    [][ (outcome'.call = "compute_loss" /\ graph.builds >= 1)
            => \/ outcome'.raised # None
               \/ /\ graph'.builds = graph.builds
                  /\ graph'.losses = graph.losses
                  /\ summaries_train' = summaries_train
                  /\ summaries_dev' = summaries_dev
      ]_vars

(***************************************************************************)
(* Checkpoint restore of the evaluation and visualization scripts          *)
(***************************************************************************)
\* s.split(sep) for a one-character separator.
RECURSIVE Split(_, _)
Split(s, sep) ==
    IF \A i \in DOMAIN s : s[i] # sep THEN <<s>>
    ELSE LET i == CHOOSE i \in DOMAIN s :
                      s[i] = sep /\ \A j \in 1..(i - 1) : s[j] # sep
         IN  <<SubSeq(s, 1, i - 1)>> \o Split(SubSeq(s, i + 1, Len(s)), sep)

\* str(n) for a non-negative int.
DecimalDigits == <<"0", "1", "2", "3", "4", "5", "6", "7", "8", "9">>

RECURSIVE Str(_)
Str(n) == IF n < 10 THEN <<DecimalDigits[n + 1]>>
          ELSE Str(n \div 10) \o <<DecimalDigits[(n % 10) + 1]>>

\* The literal '/model.ckpt-'
SlashModelCkpt == <<"/", "m", "o", "d", "e", "l", ".", "c", "k", "p", "t", "-">>

\* os.path.join(a, b), as tf.train.get_checkpoint_state uses it.
PathJoin(a, b) ==
    IF b # <<>> /\ b[1] = "/" THEN b
    ELSE IF a = <<>> \/ Last(a) = "/" THEN a \o b
    ELSE a \o <<"/">> \o b

\* tf.train.get_checkpoint_state(checkpoint_dir): None without a checkpoint
\* state file; else the state, whose model_checkpoint_path is the recorded
\* path, prefixed by checkpoint_dir when it is relative.  `recorded` is what
\* the state file of checkpoint_dir records, None when there is no file.
get_checkpoint_state(recorded, checkpoint_dir) ==
    IF recorded = None THEN None
    ELSE Some([model_checkpoint_path |->
                   PathJoin(checkpoint_dir, Get(recorded))])

\* saver.restore(sess, save_path): loads the checkpoint when its files
\* exist, and raises otherwise.
saver_restore(sess, files, save_path) ==
    IF save_path \in files
    THEN Return([sess EXCEPT !.restored = Some(save_path)], save_path)
    ELSE Raise(sess, [type |-> "NotFoundError", args |-> <<save_path>>])

\* The path the scripts restore from, with the epoch asked for as the
\* model directory's own file.
model_path_in_model_dir(ckpt, model_dir, epoch) ==
    IF epoch # None
    THEN model_dir \o SlashModelCkpt \o Str(Get(epoch))
    ELSE ckpt.model_checkpoint_path

\* The path the scripts restore from: the last saved model, or with an
\* epoch the file of that epoch next to it.
model_path(ckpt, model_dir, epoch) ==
    IF epoch # None
    THEN Join(Front(Split(ckpt.model_checkpoint_path, "/")), <<"/">>)
             \o SlashModelCkpt \o Str(Get(epoch))
    ELSE ckpt.model_checkpoint_path

\* The block both scripts run inside `with tf.Session() as sess`, up to the
\* passes: restore the checkpoint, or raise when there is none.
restore(sess, fs, model_dir, epoch) ==
    LET ckpt == get_checkpoint_state(fs.recorded, model_dir)
    IN  IF ckpt # None
        THEN saver_restore(sess, fs.files,
                           model_path(Get(ckpt), model_dir, epoch))
        ELSE Raise(sess, ValueError(<<"There are not any checkpoints.">>))

\* do_eval(network, label_type, ..., epoch): after the restore, the three
\* evaluation passes over eval1, eval2 and eval3 (character or phone error
\* rate, by label_type).
do_eval(sess, fs, model_dir, label_type, epoch) ==
    LET r == restore(sess, fs, model_dir, epoch)
        metric == IF label_type \in {"character", "kanji"}
                  THEN "do_eval_cer" ELSE "do_eval_per"
    IN  IF r.raised # None THEN r
        ELSE Return([r.st EXCEPT !.passes =
                        @ \o <<<<metric, "eval1">>, <<metric, "eval2">>,
                               <<metric, "eval3">>>>],
                    None)

\* do_plot(network, label_type_second, ..., epoch): after the restore, the
\* posterior plots of the test set.
do_plot(sess, fs, model_dir, epoch) ==
    LET r == restore(sess, fs, model_dir, epoch)
    IN  IF r.raised # None THEN r
        ELSE Return([r.st EXCEPT !.passes =
                        Append(@, <<"posterior_test_multitask", "test">>)],
                    None)

(***************************************************************************)
(* Restore: the runs of the scripts                                        *)
(***************************************************************************)
\* The model directories the scripts are given: /d, /d/ and d.
ModelDirs == {<<"/", "d">>, <<"/", "d", "/">>, <<"d">>}

\* The checkpoint file of epoch e in directory dir.
CkptFile(dir, e) == dir \o SlashModelCkpt \o Str(e)

\* What the checkpoint state file of the model directory records as the
\* last saved model: nothing, model.ckpt-5, /d/model.ckpt-5, or
\* /o/model.ckpt-5 for a model trained in /o.
Recorded ==
    {None, Some(Tail(SlashModelCkpt) \o Str(5)),
     Some(CkptFile(<<"/", "d">>, 5)), Some(CkptFile(<<"/", "o">>, 5))}

\* The checkpoint files on disk (d is /d seen from the working directory).
FileSystems ==
    {{CkptFile(<<"/", "d">>, 3), CkptFile(<<"/", "d">>, 5),
      CkptFile(<<"d">>, 3), CkptFile(<<"d">>, 5)},
     {CkptFile(<<"/", "d">>, 5), CkptFile(<<"d">>, 5),
      CkptFile(<<"/", "o">>, 3), CkptFile(<<"/", "o">>, 5)}}

Epochs == {None, Some(3), Some(5)}

LabelTypes == {"character", "phone"}

InitRestore ==
    /\ InitModel
    /\ clip_grad = None
    /\ weight_decay = 0
    /\ graph = BuiltGraph
    /\ config \in [model_dir : ModelDirs, recorded : Recorded,
                   files : FileSystems, epoch : Epochs]

\* do_eval(network, label_type, num_stack, num_skip, train_data_size, epoch)
DoEval ==
    \E label_type \in LabelTypes :
        LET r == do_eval(session, config, config.model_dir, label_type,
                         config.epoch)
        IN  /\ session.passes = <<>>
            /\ session' = r.st
            /\ outcome' = [call |-> "do_eval", args |-> <<label_type>>,
                           raised |-> r.raised, returned |-> r.returned]
            /\ UNCHANGED <<clip_grad, weight_decay, lr, clipped_grads,
                           summaries_train, summaries_dev, graph, config>>

\* do_plot(network, label_type_second, num_stack, num_skip, epoch)
DoPlot ==
    LET r == do_plot(session, config, config.model_dir, config.epoch)
    IN  /\ session.passes = <<>>
        /\ session' = r.st
        /\ outcome' = [call |-> "do_plot", args |-> <<>>,
                       raised |-> r.raised, returned |-> r.returned]
        /\ UNCHANGED <<clip_grad, weight_decay, lr, clipped_grads,
                       summaries_train, summaries_dev, graph, config>>

NextRestore == DoEval \/ DoPlot

SpecRestore == InitRestore /\ [][NextRestore]_vars

(***************************************************************************)
(* Properties of the restore                                               *)
(***************************************************************************)
RestoreRan == outcome.call \in {"do_eval", "do_plot"}

\* The part of path p before its last slash.
DirName(p) ==
    LET k == CHOOSE k \in DOMAIN p :
                 p[k] = "/" /\ \A j \in (k + 1)..Len(p) : p[j] # "/"
    IN  SubSeq(p, 1, k - 1)

\* The last saved model of the configuration, as the checkpoint state
\* gives it.
LatestCheckpoint ==
    LET p == Get(config.recorded)
    IN  IF p[1] = "/" THEN p
        ELSE IF Last(config.model_dir) = "/" THEN config.model_dir \o p
        ELSE config.model_dir \o <<"/">> \o p

NoCheckpointFails ==
    config.recorded = None =>
        /\ outcome.raised = Some(ValueError(<<"There are not any checkpoints.">>))
        /\ session.restored = None
        /\ session.passes = <<>>

LatestRestoredWithoutEpoch ==
    (config.recorded # None /\ config.epoch = None /\ session.restored # None)
        => session.restored = Some(LatestCheckpoint)

PassesOnlyAfterRestore ==
    /\ session.passes # <<>> => session.restored # None
    /\ (config.recorded # None /\ outcome.raised = None)
           => session.restored # None /\ session.passes # <<>>

\* C10, as the specification states it: without a checkpoint the restore
\* fails with the "no checkpoints" error, restoring nothing and running no
\* pass; with an epoch the path restored is <dir>/model.ckpt-<epoch> for
\* the given model directory <dir>; without one it is the latest checkpoint.
C10_RestorePathInModelDir ==
    RestoreRan =>
        /\ NoCheckpointFails
        /\ LatestRestoredWithoutEpoch
        /\ (config.epoch # None /\ session.restored # None) =>
               session.restored =
                   Some(CkptFile(config.model_dir, Get(config.epoch)))

\* C10, as the code has it: without a checkpoint the restore fails with the
\* "no checkpoints" error, restoring nothing and running no pass; with an
\* epoch the path restored is <d>/model.ckpt-<epoch> where <d> is the
\* directory of the latest checkpoint the checkpoint state records; without
\* one it is the latest checkpoint; and a pass runs only after a restore.
C10_RestorePathNextToLatest ==
    RestoreRan =>
        /\ NoCheckpointFails
        /\ LatestRestoredWithoutEpoch
        /\ PassesOnlyAfterRestore
        /\ (config.epoch # None /\ session.restored # None) =>
               session.restored =
                   Some(CkptFile(DirName(LatestCheckpoint), Get(config.epoch)))

\* do_eval restored epoch 3 of a model whose latest checkpoint is recorded
\* in /o while the model directory given is /d, and ran its three passes.
C10_Witness ==
    /\ outcome.call = "do_eval"
    /\ config.model_dir = <<"/", "d">>
    /\ config.epoch = Some(3)
    /\ config.recorded = Some(CkptFile(<<"/", "o">>, 5))
    /\ session.restored = Some(CkptFile(<<"/", "o">>, 3))
    /\ Len(session.passes) = 3

(***************************************************************************)
(* The multi-task model: compute_loss with a main and a second head        *)
(***************************************************************************)
\* x * y for a tensor x and a Python float y.
Mul(x, y) == [op |-> "mul", x |-> x, y |-> y]

\* 1 - main_task_weight
OneMinus(w) == RAdd(FromInt(1), RMul(FromInt(-1), w))

\* self._build(inputs, inputs_seq_len) of the multi-task model: the first
\* build creates the variables, a shared weight matrix, the second head's
\* weight matrix and a bias; yields the graph and the logits of both heads.
_build_multitask(g, inputs, inputs_seq_len) ==
    LET g1 == IF g.builds = 0
              THEN AddVariable(
                       AddVariable(AddVariable(g, <<"W">>, 0, TRUE),
                                   <<"W", "_", "s", "e", "c", "o", "n", "d">>,
                                   0, TRUE),
                       <<"B", "i", "a", "s">>, 0, TRUE)
              ELSE g
        n == g.builds + 1
    IN  [graph |-> [g1 EXCEPT !.builds = n],
         logits_main |-> [op |-> "logits", build |-> n, head |-> "main"],
         logits_second |-> [op |-> "logits", build |-> n, head |-> "second"]]

\* The multi-task compute_loss with the weights of the two heads exchanged.
compute_loss_multitask_swapped(st, decay, main_task_weight, inputs, labels, labels_second, inputs_seq_len, num_gpu) ==
    LET b == _build_multitask(st.graph, inputs, inputs_seq_len)
        terms == <<WeightDecayLoss(b.graph, decay),
                   Mul(CtcLossMean(labels, b.logits_main, inputs_seq_len),
                       OneMinus(main_task_weight)),
                   Mul(CtcLossMean(labels_second, b.logits_second,
                                   inputs_seq_len),
                       main_task_weight)>>
        g1 == [b.graph EXCEPT !.losses = @ \o terms]
        g2 == [g1 EXCEPT !.loss_ops = Append(@, AddN(g1.losses))]
        n == Len(g2.loss_ops)
    IN  Return([st EXCEPT
                  !.graph = g2,
                  !.summaries_train =
                      IF num_gpu = 1 THEN Append(@, <<"loss_train", n>>) ELSE @,
                  !.summaries_dev =
                      IF num_gpu = 1 THEN Append(@, <<"loss_dev", n>>) ELSE @],
               <<n, b.logits_main, b.logits_second>>)

\* compute_loss(self, inputs, labels, labels_second, inputs_seq_len, num_gpu)
\* of the multi-task model: as ctcBase.compute_loss, with the mean CTC loss
\* of each head added to 'losses' under its weight, main_task_weight for
\* the main head and 1 - main_task_weight for the second.
compute_loss_multitask(st, decay, main_task_weight, inputs, labels, labels_second, inputs_seq_len, num_gpu) ==
    LET b == _build_multitask(st.graph, inputs, inputs_seq_len)
        terms == <<WeightDecayLoss(b.graph, decay),
                   Mul(CtcLossMean(labels, b.logits_main, inputs_seq_len),
                       main_task_weight),
                   Mul(CtcLossMean(labels_second, b.logits_second,
                                   inputs_seq_len),
                       OneMinus(main_task_weight))>>
        g1 == [b.graph EXCEPT !.losses = @ \o terms]
        g2 == [g1 EXCEPT !.loss_ops = Append(@, AddN(g1.losses))]
        n == Len(g2.loss_ops)
    IN  Return([st EXCEPT
                  !.graph = g2,
                  !.summaries_train =
                      IF num_gpu = 1 THEN Append(@, <<"loss_train", n>>) ELSE @,
                  !.summaries_dev =
                      IF num_gpu = 1 THEN Append(@, <<"loss_dev", n>>) ELSE @],
               <<n, b.logits_main, b.logits_second>>)

\* The value of a tensor of the multi-task loss, as a fraction, in a run
\* where tf.nn.l2_loss of variable v is l2[v] and the mean CTC loss of a
\* head is ctc[head].
RECURSIVE LossValueMultitask(_, _, _)
LossValueMultitask(t, l2, ctc) ==
    CASE t.op = "weight_decay_loss" ->
            RMul(RSum([i \in DOMAIN t.vars |-> FromInt(l2[t.vars[i]])]),
                 FromInt(t.weight_decay))
      [] t.op = "ctc_loss_mean" -> FromInt(ctc[t.logits.head])
      [] t.op = "mul" -> RMul(LossValueMultitask(t.x, l2, ctc), t.y)
      [] t.op = "add_n" ->
            RSum([i \in DOMAIN t.inputs |->
                      LossValueMultitask(t.inputs[i], l2, ctc)])

(***************************************************************************)
(* The multi-task loss: the calls of the visualization script              *)
(***************************************************************************)
\* main_task_weight: 0, 1/4, 1/2 and 1.
MainTaskWeights == {<<0, 1>>, <<1, 4>>, <<1, 2>>, <<1, 1>>}

InitMultitask ==
    /\ InitModel
    /\ clip_grad = None
    /\ weight_decay \in WeightDecays
    /\ graph = EmptyGraph
    /\ config \in [main_task_weight : MainTaskWeights, num_gpu : {1}]

\* do_plot: network.compute_loss(network.inputs, network.labels,
\* network.labels_second, network.inputs_seq_len), once on the script's graph.
CallComputeLossMultitask ==
    LET r == compute_loss_multitask(
                 [summaries_train |-> summaries_train,
                  summaries_dev |-> summaries_dev, graph |-> graph],
                 weight_decay, config.main_task_weight, "inputs", "labels",
                 "labels_second", "inputs_seq_len", config.num_gpu)
    IN  /\ graph.builds = 0
        /\ summaries_train' = r.st.summaries_train
        /\ summaries_dev' = r.st.summaries_dev
        /\ graph' = r.st.graph
        /\ outcome' = [call |-> "compute_loss_multitask", args |-> <<>>,
                       raised |-> r.raised, returned |-> r.returned]
        /\ UNCHANGED <<clip_grad, weight_decay, lr, clipped_grads, session,
                       config>>

\* session.run(loss) for the loss compute_loss returned.
RunLossOpMultitask ==
    \E k \in DOMAIN graph.loss_ops :
    \E l2 \in [DOMAIN graph.variables -> L2Values] :
    \E ctc \in [{"main", "second"} -> CtcValues] :
        /\ session' = [session EXCEPT
                         !.loss = Some([op |-> k, l2 |-> l2,
                                        ctc_loss_mean |-> ctc,
                                        value |-> LossValueMultitask(
                                                      graph.loss_ops[k],
                                                      l2, ctc)])]
        /\ outcome' = [call |-> "run_loss", args |-> <<k>>,
                       raised |-> None, returned |-> None]
        /\ UNCHANGED <<clip_grad, weight_decay, lr, clipped_grads,
                       summaries_train, summaries_dev, graph, config>>

NextMultitask == CallComputeLossMultitask \/ RunLossOpMultitask

SpecMultitask == InitMultitask /\ [][NextMultitask]_vars

(***************************************************************************)
(* Properties of the multi-task loss                                       *)
(***************************************************************************)
\* weight_decay times the summed L2 losses, in the run whose values are r,
\* of the trainable variables whose name has no 'bias'.
SharedWeightDecay(r) ==
    LET weights == {v \in DOMAIN graph.variables :
                        /\ graph.variables[v].trainable
                        /\ ~NamesBias(graph.variables[v].name)}
        RECURSIVE L2Sum(_)
        L2Sum(vs) == IF vs = {} THEN 0
                     ELSE LET v == CHOOSE v \in vs : TRUE
                          IN  r.l2[v] + L2Sum(vs \ {v})
    IN  weight_decay * L2Sum(weights)

\* C11: the loss the multi-task compute_loss returns evaluates to
\* main_task_weight * lossMain + (1 - main_task_weight) * lossSecond plus
\* the shared weight-decay term; with weight 1 that is the main head's loss
\* plus weight decay, with weight 0 the second head's loss plus weight
\* decay; and the call returns the logits of both heads with the loss.
C11_MultitaskLossIsWeightedSum ==
    /\ outcome.call = "compute_loss_multitask" =>
           /\ outcome.raised = None
           /\ Len(Get(outcome.returned)) = 3
           /\ Get(outcome.returned)[1] \in DOMAIN graph.loss_ops
           /\ Get(outcome.returned)[2].head = "main"
           /\ Get(outcome.returned)[3].head = "second"
    /\ session.loss # None =>
           LET r == Get(session.loss)
               w == config.main_task_weight
               main == r.ctc_loss_mean["main"]
               second == r.ctc_loss_mean["second"]
               decay == SharedWeightDecay(r)
           IN  /\ r.value[2] * (w[1] * main + (w[2] - w[1]) * second
                                   + w[2] * decay)
                      = r.value[1] * w[2]
               /\ w = <<1, 1>> => r.value = <<main + decay, 1>>
               /\ w = <<0, 1>> => r.value = <<second + decay, 1>>

\* The loss was run with weight 1/4, weight decay 2 and different losses of
\* the two heads: 5/4 + 3 * 2/4 + 2 * (1 + 3) = 43/4.
C11_Witness ==
    /\ session.loss # None
    /\ config.main_task_weight = <<1, 4>>
    /\ weight_decay = 2
    /\ Get(session.loss).ctc_loss_mean = [main |-> 5, second |-> 2]
    /\ Get(session.loss).l2 = <<1, 3, 3>>
    /\ Get(session.loss).value = <<43, 4>>

(***************************************************************************)
(* Setup: the train and decoder calls of one script                        *)
(***************************************************************************)
\* The decode types of the decoder calls: those above and one more name
\* outside the set.
SetupDecodeTypes == DecodeTypes \cup {"viterbi"}

IsTrainConfig == "optimizer" \in DOMAIN config

IsDecodeConfig == "decode_type" \in DOMAIN config

\* A script either builds a training op or a decode op on its graph.
InitSetup ==
    /\ InitModel
    /\ weight_decay = 0
    /\ graph = BuiltGraph
    /\ \/ /\ clip_grad \in {None, Some(1)}
          /\ config \in [optimizer : OptimizerArgs,
                         learning_rate_init : LearningRates,
                         clip_grad_by_norm : ClipByNormArgs,
                         is_scheduled : BOOLEAN]
       \/ /\ clip_grad = None
          /\ config \in [decode_type : SetupDecodeTypes,
                         beam_width : BeamWidths,
                         logits : [1..1 -> [1..MaxTime -> {FrameOf(<<5, 1, 4>>)}]],
                         seq_len : [1..1 -> 0..MaxTime]]

SetupCallTrain == IsTrainConfig /\ CallTrain

SetupRunTrainOp == IsTrainConfig /\ RunTrainOp

SetupCallDecoder == IsDecodeConfig /\ CallDecoder

SetupRunDecodeOp == IsDecodeConfig /\ RunDecodeOp

NextSetup ==
    SetupCallTrain \/ SetupRunTrainOp \/ SetupCallDecoder \/ SetupRunDecodeOp

SpecSetup == InitSetup /\ [][NextSetup]_vars

(***************************************************************************)
(* Properties of the configuration errors                                  *)
(***************************************************************************)
\* The characters of the decode types and of decoder's messages.
Chars(s) ==
    IF s = "greedy" THEN
        <<"g", "r", "e", "e", "d", "y">>
    ELSE IF s = "beam_search" THEN
        <<"b", "e", "a", "m", "_", "s", "e", "a", "r", "c", "h">>
    ELSE IF s = "beam" THEN
        <<"b", "e", "a", "m">>
    ELSE IF s = "Greedy" THEN
        <<"G", "r", "e", "e", "d", "y">>
    ELSE IF s = "viterbi" THEN
        <<"v", "i", "t", "e", "r", "b", "i">>
    ELSE IF s = "decode_type is \"greedy\" or \"beam_search\"." THEN
        <<"d", "e", "c", "o", "d", "e", "_", "t", "y", "p", "e", " ", "i",
          "s", " ", "\"", "g", "r", "e", "e", "d", "y", "\"", " ", "o",
          "r", " ", "\"", "b", "e", "a", "m", "_", "s", "e", "a", "r", "c",
          "h", "\"", ".">>
    ELSE IF s = "Set beam_width." THEN
        <<"S", "e", "t", " ", "b", "e", "a", "m", "_", "w", "i", "d", "t",
          "h", ".">>
    ELSE <<s>>

\* The text has the word in it, up to letter case.
NamesWord(text, word) ==
    \E k \in 0..(Len(text) - Len(word)) :
        SameLetters(SubSeq(text, k + 1, k + Len(word)), word)

ConfigurationErrorRaised ==
    outcome.call \in {"train", "decoder"} /\ outcome.raised # None

\* C12: each configuration error is raised before any training or decoding
\* step has run, and its message names the value supplied and, for the
\* optimizer name and the decode type, the closed set of valid values.
C12_ConfigurationErrorsNameValue ==
    ConfigurationErrorRaised =>
        LET args == Get(outcome.raised).args
        IN  /\ session.applied = None
            /\ session.decoded = None
            /\ (outcome.call = "train" /\ ~ValidOptimizerArg) =>
                   /\ NamesWord(args[1], config.optimizer)
                   /\ \A n \in ValidOptimizerNames : NamesWord(args[1], n)
            /\ (outcome.call = "train" /\ ValidOptimizerArg) =>
                   Len(args) = 2 /\ args[2] = config.learning_rate_init
            /\ (outcome.call = "decoder"
                    /\ config.decode_type \notin {"greedy", "beam_search"}) =>
                   /\ NamesWord(Chars(args[1]), Chars(config.decode_type))
                   /\ NamesWord(Chars(args[1]), Chars("greedy"))
                   /\ NamesWord(Chars(args[1]), Chars("beam_search"))
            /\ (outcome.call = "decoder"
                    /\ config.decode_type = "beam_search") =>
                   NamesWord(Chars(args[1]),
                             <<"b", "e", "a", "m", "_", "w", "i", "d", "t", "h">>)

\* C14: a train call that raises (invalid optimizer name, negative learning
\* rate) and a decoder call that raises (unknown decode_type, missing
\* beam_width) leave every attribute of the model and the whole graph as
\* they were: no placeholder, variable or op is created.
C14_FailedCallLeavesModelUnchanged ==
    [][ (outcome'.call \in {"train", "decoder"} /\ outcome'.raised # None)
            => /\ outcome'.returned = None
               /\ lr' = lr
               /\ clipped_grads' = clipped_grads
               /\ summaries_train' = summaries_train
               /\ summaries_dev' = summaries_dev
               /\ clip_grad' = clip_grad
               /\ weight_decay' = weight_decay
               /\ graph' = graph
               /\ graph'.placeholders = <<>>
               /\ graph'.train_ops = <<>>
               /\ graph'.decode_ops = <<>>
               /\ \A v \in DOMAIN graph'.variables :
                     graph'.variables[v].name # global_step_name
      ]_vars

\* decoder raised for 'beam_search' without a beam_width, on the graph as
\* built before the call.
C14_Witness ==
    /\ outcome.call = "decoder"
    /\ config.decode_type = "beam_search"
    /\ config.beam_width = None
    /\ outcome.raised = Some(ValueError(<<"Set beam_width.">>))
    /\ graph = BuiltGraph
    /\ lr = None

====
